---- MODULE Spec2Model ----
(***************************************************************************)
(* Transport negotiator (RTCDtlsTransport) and inbound stream receiver     *)
(* (RTCRtpReceiver / RTPReceiverInternal).  Every async method is split at *)
(* its await points: the code between two awaits is one atomic step of the *)
(* calling task.                                                           *)
(***************************************************************************)
EXTENDS Integers, Sequences, FiniteSets, TLC

\* ---------------------------------------------------------------- bounds
NumStarters == 2      \* tasks that may call RTCDtlsTransport::start
MaxStarts   == 3      \* start calls over the negotiator's lifetime
MaxCerts    == 2      \* configured local identities

Starters == 1 .. NumStarters
Handlers == {1}       \* handlers an application may register

\* ------------------------------------------------- negotiator state
VARIABLES
  ice_state,        \* ice_transport.state(): "New" or "Checking" (left New)
  certificates,     \* RTCDtlsTransport.certificates
  remote_parameters,\* RTCDtlsTransport.remote_parameters (0 = default)
  state,            \* RTCDtlsTransport.state (AtomicU8)
  conn,             \* RTCDtlsTransport.conn (0 = None, else the call that set it)
  on_state_change_handler, \* handler slot (0 = None)
  handler_lock,     \* task holding the on_state_change_handler Mutex (0 = free)
  delivered,        \* states passed to the handler, in order of invocation
  stored,           \* values stored into state, in order of the stores
  lp_res,           \* result of the last get_local_parameters call
  tpc,              \* position of each task inside start
  tres,             \* result of each task's current / last start call
  targ,             \* argument of the state_change the task is inside
  tnext,            \* where the task continues after state_change returns
  after_ok,         \* the call was issued after an earlier start returned Ok
  ok_returned,      \* some start call has returned Ok
  left_new,         \* the state has been stored with a value other than New
  nstarts           \* start calls issued so far

dtlsVars == <<ice_state, certificates, remote_parameters, state, conn,
              on_state_change_handler, handler_lock, delivered, stored,
              lp_res, tpc, tres, targ, tnext, after_ok, ok_returned,
              left_new, nstarts>>

\* --------------------------------------------------- receiver bounds
NumReceivers == 2     \* tasks that call RTCRtpReceiver::receive (once each)
NumReaders   == 2     \* tasks that call read / read_simulcast (once each)
MaxStops     == 2     \* stop calls over the receiver's lifetime
MaxEnc       == 2     \* encodings in one RTCRtpReceiveParameters
MaxSmallEnc  == 1     \* the same, where stop or readers run beside receive
MaxReadStops == 1     \* stop calls while readers or a long receive run
MaxRtxCalls  == 1     \* receive_for_rtx calls made from outside receive

Receivers == 1 .. NumReceivers
Readers   == 1 .. NumReaders

\* ----------------------------------------------------- receiver state
VARIABLES
  received_tx,      \* RTCRtpReceiver.received_tx is Some
  tracks,           \* RTPReceiverInternal.tracks
  tracks_writer,    \* the tracks RwLock is write-held (by stop, across awaits)
  tracks_readers,   \* readers holding the tracks RwLock shared
  received_rx_lock, \* holder of the received_rx Mutex (0 = free)
  woken,            \* readers whose pending closed_rx.notified() has fired
  drains,           \* live repair-drain tasks spawned by receive_for_rtx
  binds,            \* streams_for_ssrc calls made so far, with their outcome
  closed,           \* read streams on which close() has been called
  unbound,          \* stream descriptors given to unbind_remote_stream
  rpc, rres,        \* position / result of each receive call
  params, enc_i,    \* argument of the receive call in flight, loop index
  pending,          \* the TrackStream a binding returned, not yet stored
  incoming,         \* the TrackDetails of each task's call of the start helper
  labelled,         \* tracks the start helper has given id and stream id
  rtx_call,         \* arguments and result of the last receive_for_rtx call
                    \* made from outside receive
  dpc, dop, dres,   \* position / operation / result of each reader
  dsrc,             \* the rtcp_interceptor a reader is reading from
  after_stop,       \* the read was issued after a stop had been invoked
  queued_at_stop,   \* the read was waiting for the received_rx lock behind
                    \* its holder when a stop was invoked
  spc, sres,        \* position / result of the stop call
  s_i, errs,        \* stop: loop index over tracks, collected close errors
  failed,           \* read streams whose close() answered Err in this stop call
  nstops,           \* stop calls issued so far
  stop_invoked,     \* some stop call has broadcast on closed_tx
  stop_after_receive \* what the last stop call found when it was invoked:
                    \* "no" receive call yet, one "running", or "returned"

helperVars == <<incoming, labelled, rtx_call>>
rcvVars  == <<rpc, rres, params, enc_i, pending, binds, helperVars>>
trkVars  == <<received_tx, tracks, drains>>
lockVars == <<tracks_writer, tracks_readers, received_rx_lock>>
rdVars   == <<dpc, dop, dres, dsrc, woken, after_stop, queued_at_stop>>
stVars   == <<spc, sres, s_i, errs, failed, nstops, stop_invoked, stop_after_receive, closed,
             unbound>>

recvVars == <<rcvVars, trkVars, lockVars, rdVars, stVars>>

vars == <<dtlsVars, recvVars>>

DtlsStates == {"New", "Connecting", "Connected", "Failed"}

\* RTCCertificate::get_fingerprints of the i-th identity: identity i has i
\* fingerprints, so that the order of a concatenation shows.
get_fingerprints(i) == [k \in 1 .. i |-> <<i, k>>]

NoResult == [res |-> "none", fingerprints |-> <<>>]

\* RTCDtlsTransport::new
InitDtls ==
  /\ ice_state = "New"
  /\ certificates \in {[i \in 1 .. n |-> i] : n \in 0 .. MaxCerts}
  /\ remote_parameters = 0
  /\ state = "New"
  /\ conn = 0
  /\ on_state_change_handler = 0
  /\ handler_lock = 0
  /\ delivered = <<>>
  /\ stored = <<>>
  /\ lp_res = NoResult
  /\ tpc = [p \in Starters |-> "idle"]
  /\ tres = [p \in Starters |-> "none"]
  /\ targ = [p \in Starters |-> "none"]
  /\ tnext = [p \in Starters |-> "none"]
  /\ after_ok = [p \in Starters |-> FALSE]
  /\ ok_returned = FALSE
  /\ left_new = FALSE
  /\ nstarts = 0

\* The connectivity layer leaves its New state.
IceStart ==
  /\ ice_state = "New"
  /\ ice_state' = "Checking"
  /\ UNCHANGED <<certificates, remote_parameters, state, conn,
                 on_state_change_handler, delivered, tpc, tres, targ, tnext,
                 after_ok, ok_returned, left_new, nstarts>>
  /\ UNCHANGED <<handler_lock, stored, lp_res>>
  /\ UNCHANGED recvVars

\* on_state_change called by the application: once the slot lock is granted
\* the single handler slot is replaced.
OnStateChange(h) ==
  /\ handler_lock = 0
  /\ on_state_change_handler # h
  /\ on_state_change_handler' = h
  /\ UNCHANGED <<ice_state, certificates, remote_parameters, state, conn,
                 delivered, tpc, tres, targ, tnext, after_ok, ok_returned,
                 left_new, nstarts>>
  /\ UNCHANGED <<handler_lock, stored, lp_res>>
  /\ UNCHANGED recvVars

\* get_local_parameters: the fingerprints of every certificate, in order;
\* the first get_fingerprints that fails (those in bad) ends the call.
get_local_parameters(certs, bad) ==
  LET F[n \in 0 .. Len(certs)] ==
        IF n = 0 THEN <<>> ELSE F[n - 1] \o get_fingerprints(certs[n]) IN
    IF \E n \in 1 .. Len(certs) : certs[n] \in bad
      THEN [res |-> "ErrGetFingerprints", fingerprints |-> <<>>]
      ELSE [res |-> "Ok", fingerprints |-> F[Len(certs)]]

\* A task calls get_local_parameters.
GetLocalParameters(bad) ==
  /\ bad \subseteq {certificates[n] : n \in 1 .. Len(certificates)}
  /\ lp_res' = get_local_parameters(certificates, bad)
  /\ UNCHANGED <<ice_state, certificates, remote_parameters, state, conn,
                 on_state_change_handler, delivered, tpc, tres, targ, tnext,
                 after_ok, ok_returned, left_new, nstarts>>
  /\ UNCHANGED <<handler_lock, stored>>
  /\ UNCHANGED recvVars

\* ensure_ice_conn
ensure_ice_conn == IF ice_state = "New" THEN "ErrICEConnectionNotStarted" ELSE "Ok"

\* The two precondition checks at the head of prepare_transport.
PrepareChecks ==
  IF ensure_ice_conn # "Ok" THEN ensure_ice_conn
  ELSE IF state # "New" THEN "ErrInvalidDTLSStart"
  ELSE "Ok"

\* start, up to its first suspension after new_endpoint has answered.
\* endpoint = FALSE is new_endpoint returning None: the else branch builds the
\* error and the match arm calls state_change(Failed) without any check.
\* endpoint = TRUE enters prepare_transport and runs its two checks.
StartBegin(p, endpoint) ==
  /\ tpc[p] = "idle"
  /\ nstarts < MaxStarts
  /\ nstarts' = nstarts + 1
  /\ after_ok' = [after_ok EXCEPT ![p] = ok_returned]
  /\ IF ~endpoint
       THEN /\ state' = "Failed"
            /\ stored' = Append(stored, "Failed")
            /\ left_new' = TRUE
            /\ tpc' = [tpc EXCEPT ![p] = "notify"]
            /\ targ' = [targ EXCEPT ![p] = "Failed"]
            /\ tnext' = [tnext EXCEPT ![p] = "return"]
            /\ tres' = [tres EXCEPT ![p] = "ErrNewEndpointFailed"]
       ELSE /\ UNCHANGED <<state, stored, left_new, targ, tnext>>
            /\ IF PrepareChecks = "Ok"
                 THEN /\ tpc' = [tpc EXCEPT ![p] = "prepare"]
                      /\ tres' = [tres EXCEPT ![p] = "none"]
                 ELSE /\ tpc' = [tpc EXCEPT ![p] = "done"]
                      /\ tres' = [tres EXCEPT ![p] = PrepareChecks]
  /\ UNCHANGED <<ice_state, certificates, remote_parameters, conn,
                 on_state_change_handler, delivered, ok_returned>>
  /\ UNCHANGED <<handler_lock, lp_res>>
  /\ UNCHANGED recvVars

\* prepare_transport after the remote_parameters lock is granted: store the
\* parameters, pick the first certificate, state_change(Connecting).
StartPrepare(p) ==
  /\ tpc[p] = "prepare"
  /\ remote_parameters' = p
  /\ IF certificates = <<>>
       THEN /\ tpc' = [tpc EXCEPT ![p] = "done"]
            /\ tres' = [tres EXCEPT ![p] = "ErrNonCertificate"]
            /\ UNCHANGED <<state, stored, left_new, targ, tnext>>
       ELSE /\ state' = "Connecting"
            /\ stored' = Append(stored, "Connecting")
            /\ left_new' = TRUE
            /\ tpc' = [tpc EXCEPT ![p] = "notify"]
            /\ targ' = [targ EXCEPT ![p] = "Connecting"]
            /\ tnext' = [tnext EXCEPT ![p] = "handshake"]
            /\ UNCHANGED tres
  /\ UNCHANGED <<ice_state, certificates, conn, on_state_change_handler,
                 delivered, after_ok, ok_returned, nstarts>>
  /\ UNCHANGED <<handler_lock, lp_res>>
  /\ UNCHANGED recvVars

\* state_change after its store, once the slot lock is granted.  With no
\* handler registered the lock is dropped at once and the caller continues;
\* otherwise the handler is called with the lock held.
StateChangeNotify(p) ==
  /\ tpc[p] = "notify"
  /\ handler_lock = 0
  /\ IF on_state_change_handler = 0
       THEN /\ IF tnext[p] = "return"
                 THEN /\ tpc' = [tpc EXCEPT ![p] = "done"]
                      /\ ok_returned' = (ok_returned \/ tres[p] = "Ok")
                 ELSE /\ tpc' = [tpc EXCEPT ![p] = tnext[p]]
                      /\ UNCHANGED ok_returned
            /\ targ' = [targ EXCEPT ![p] = "none"]
            /\ tnext' = [tnext EXCEPT ![p] = "none"]
            /\ UNCHANGED <<handler_lock, delivered>>
       ELSE /\ handler_lock' = p
            /\ delivered' = Append(delivered, targ[p])
            /\ tpc' = [tpc EXCEPT ![p] = "handler"]
            /\ UNCHANGED <<targ, tnext, ok_returned>>
  /\ UNCHANGED <<ice_state, certificates, remote_parameters, state, conn,
                 on_state_change_handler, tres, after_ok, left_new, nstarts>>
  /\ UNCHANGED <<stored, lp_res>>
  /\ UNCHANGED recvVars

\* What a handler may do with the negotiator before it returns.
HandlerCalls ==
  {"nothing", "state", "conn", "get_remote_certificate", "on_state_change",
   "start"}

\* The handler future runs inside state_change, the slot lock held.
\*  - state / conn / get_remote_certificate take no lock that is held across
\*    an await: the handler returns, state_change drops the slot lock and
\*    returns to its caller.
\*  - on_state_change awaits on_state_change_handler.lock(), which the
\*    enclosing state_change holds until the handler returns: the task stays
\*    at "h_on_state_change", no step leaves it.
\*  - start with new_endpoint = None stores Failed and enters state_change,
\*    which awaits the same lock: the task stays at "h_state_change".
\*  - start with new_endpoint = Some fails one of the checks of
\*    prepare_transport (the state is not New: the enclosing state_change has
\*    stored another value) and returns that error to the handler.
HandlerRun(p, call, endpoint) ==
  /\ tpc[p] = "handler"
  /\ call = "start" => nstarts < MaxStarts
  /\ nstarts' = IF call = "start" THEN nstarts + 1 ELSE nstarts
  /\ IF call = "on_state_change"
       THEN /\ tpc' = [tpc EXCEPT ![p] = "h_on_state_change"]
            /\ UNCHANGED <<state, stored, left_new, handler_lock, targ, tnext,
                           ok_returned>>
       ELSE IF call = "start" /\ (~endpoint \/ PrepareChecks = "Ok")
         THEN /\ ~endpoint
              /\ state' = "Failed"
              /\ stored' = Append(stored, "Failed")
              /\ left_new' = TRUE
              /\ tpc' = [tpc EXCEPT ![p] = "h_state_change"]
              /\ UNCHANGED <<handler_lock, targ, tnext, ok_returned>>
         ELSE /\ handler_lock' = 0
              /\ IF tnext[p] = "return"
                   THEN /\ tpc' = [tpc EXCEPT ![p] = "done"]
                        /\ ok_returned' = (ok_returned \/ tres[p] = "Ok")
                   ELSE /\ tpc' = [tpc EXCEPT ![p] = tnext[p]]
                        /\ UNCHANGED ok_returned
              /\ targ' = [targ EXCEPT ![p] = "none"]
              /\ tnext' = [tnext EXCEPT ![p] = "none"]
              /\ UNCHANGED <<state, stored, left_new>>
  /\ UNCHANGED <<ice_state, certificates, remote_parameters, conn,
                 on_state_change_handler, delivered, tres, after_ok, lp_res>>
  /\ UNCHANGED recvVars

\* DTLSConn::new answers.  On Err: state_change(Failed) and the error is
\* returned.  On Ok the task goes on to wait for the conn lock.
Handshake(p, ok) ==
  /\ tpc[p] = "handshake"
  /\ IF ok
       THEN /\ tpc' = [tpc EXCEPT ![p] = "conn"]
            /\ UNCHANGED <<state, stored, left_new, targ, tnext, tres>>
       ELSE /\ state' = "Failed"
            /\ stored' = Append(stored, "Failed")
            /\ left_new' = TRUE
            /\ tpc' = [tpc EXCEPT ![p] = "notify"]
            /\ targ' = [targ EXCEPT ![p] = "Failed"]
            /\ tnext' = [tnext EXCEPT ![p] = "return"]
            /\ tres' = [tres EXCEPT ![p] = "ErrHandshakeFailed"]
  /\ UNCHANGED <<ice_state, certificates, remote_parameters, conn,
                 on_state_change_handler, delivered, after_ok, ok_returned,
                 nstarts>>
  /\ UNCHANGED <<handler_lock, lp_res>>
  /\ UNCHANGED recvVars

\* The conn lock is granted: store the channel, state_change(Connected).
StoreConn(p) ==
  /\ tpc[p] = "conn"
  /\ conn' = p
  /\ state' = "Connected"
  /\ stored' = Append(stored, "Connected")
  /\ left_new' = TRUE
  /\ tpc' = [tpc EXCEPT ![p] = "notify"]
  /\ targ' = [targ EXCEPT ![p] = "Connected"]
  /\ tnext' = [tnext EXCEPT ![p] = "return"]
  /\ tres' = [tres EXCEPT ![p] = "Ok"]
  /\ UNCHANGED <<ice_state, certificates, remote_parameters,
                 on_state_change_handler, delivered, after_ok, ok_returned,
                 nstarts>>
  /\ UNCHANGED <<handler_lock, lp_res>>
  /\ UNCHANGED recvVars

\* The caller takes the result; the task may issue another call.
StartReturn(p) ==
  /\ tpc[p] = "done"
  /\ tpc' = [tpc EXCEPT ![p] = "idle"]
  /\ tres' = [tres EXCEPT ![p] = "none"]
  /\ UNCHANGED <<ice_state, certificates, remote_parameters, state, conn,
                 on_state_change_handler, delivered, targ, tnext, after_ok,
                 ok_returned, left_new, nstarts>>
  /\ UNCHANGED <<handler_lock, stored, lp_res>>
  /\ UNCHANGED recvVars

\* ======================================================== stream receiver

SSRCs    == {0, 1}         \* encoding.ssrc values (0: SSRC not yet known)
RIDs     == {"", "a"}      \* encoding.rid values
RtxSSRCs == {0, 2}         \* encoding.rtx.ssrc values (0: no RTX declared)
ReadRids == {"", "a"}      \* rid arguments of read_simulcast

\* RTCRtpDecodingParameters and RTCRtpReceiveParameters.encodings
Encodings == [ssrc : SSRCs, rid : RIDs, rtx : RtxSSRCs]
ReceiveParameters == UNION {[1 .. n -> Encodings] : n \in 0 .. MaxEnc}

\* TrackStream with every field None
NoStream ==
  [stream_info |-> 0, rtp_read_stream |-> 0, rtp_interceptor |-> 0,
   rtcp_read_stream |-> 0, rtcp_interceptor |-> 0]

\* What a successful stream binding may hand back: the four halves of the
\* pipeline, or none of them (a partial binding).
BindShapes   == {"full", "none"}
BindOutcomes == BindShapes \cup {"err"}

\* Identity of the binding made for the primary / RTX SSRC of encoding i.
PrimaryId(i) == 2 * i - 1
RepairId(i)  == 2 * i

\* The TrackStream receive builds from an Ok answer of streams_for_ssrc.
streams_for_ssrc(id, shape) ==
  [stream_info      |-> id,
   rtp_read_stream  |-> IF shape = "full" THEN id ELSE 0,
   rtp_interceptor  |-> IF shape = "full" THEN id ELSE 0,
   rtcp_read_stream |-> IF shape = "full" THEN id ELSE 0,
   rtcp_interceptor |-> IF shape = "full" THEN id ELSE 0]

\* The mpsc Sender of the first-receive gate still exists: it sits in
\* received_tx, or a running receive holds it in _d until it returns.
SenderAlive ==
  received_tx \/ \E c \in Receivers : rpc[c] \in {"bind", "push", "bind_rtx", "attach"}

\* The receive calls that got past the one-shot gate.
PassedGate ==
  {c \in Receivers :
     \/ rpc[c] \in {"bind", "push", "bind_rtx", "attach"}
     \/ rpc[c] \in {"done", "started"}
          /\ rres[c] # "ErrRTPReceiverReceiveAlreadyCalled"}

\* Every receive call that got past the gate has returned.
ReceiveReturned == \A c \in PassedGate : rpc[c] \in {"done", "started"}

TracksLockFree == ~tracks_writer /\ tracks_readers = {}

\* No call of the start helper / of receive_for_rtx yet.
NoDetails == [called |-> FALSE, ssrcs |-> <<>>, rids |-> <<>>, repair_ssrc |-> 0]
NoRtxCall == [n |-> 0, ssrc |-> 0, rsid |-> "", id |-> 0, res |-> "none"]

\* RTCRtpReceiver::new
InitRecv ==
  /\ received_tx = TRUE
  /\ tracks = <<>>
  /\ tracks_writer = FALSE
  /\ tracks_readers = {}
  /\ received_rx_lock = 0
  /\ woken = {}
  /\ drains = {}
  /\ binds = {}
  /\ closed = {}
  /\ unbound = {}
  /\ rpc = [c \in Receivers |-> "idle"]
  /\ rres = [c \in Receivers |-> "none"]
  /\ params = <<>>
  /\ enc_i = 0
  /\ pending = NoStream
  /\ incoming = [c \in Receivers |-> NoDetails]
  /\ labelled = {}
  /\ rtx_call = NoRtxCall
  /\ dpc = [r \in Readers |-> "idle"]
  /\ dop = [r \in Readers |-> [kind |-> "none", rid |-> ""]]
  /\ dres = [r \in Readers |-> "none"]
  /\ dsrc = [r \in Readers |-> 0]
  /\ after_stop = [r \in Readers |-> FALSE]
  /\ queued_at_stop = [r \in Readers |-> FALSE]
  /\ spc = "idle"
  /\ sres = "none"
  /\ s_i = 0
  /\ errs = <<>>
  /\ failed = {}
  /\ nstops = 0
  /\ stop_invoked = FALSE
  /\ stop_after_receive = "no"

\* ---------------------------------------------------------------- receive

\* EncodingEntry without the `encoding.ssrc != 0` test: a binding is requested
\* for every encoding.
EncodingEntryAlwaysBinds(p, i) ==
  IF i > Len(p) THEN "done" ELSE "bind"

\* Where the loop of receive suspends first for encoding i of p.
EncodingEntry(p, i) ==
  IF i > Len(p) THEN "done"
  ELSE IF p[i].ssrc # 0 THEN "bind" ELSE "push"

\* ReceiveCall with the gate tested but not consumed (no take()).
ReceiveCallNoTake(c, p) ==
  /\ rpc[c] = "idle"
  /\ IF ~received_tx
       THEN /\ rpc' = [rpc EXCEPT ![c] = "done"]
            /\ rres' = [rres EXCEPT ![c] = "ErrRTPReceiverReceiveAlreadyCalled"]
            /\ UNCHANGED <<params, enc_i, pending>>
       ELSE /\ params' = p
            /\ enc_i' = 1
            /\ pending' = NoStream
            /\ rpc' = [rpc EXCEPT ![c] = EncodingEntry(p, 1)]
            /\ rres' = [rres EXCEPT ![c] =
                          IF EncodingEntry(p, 1) = "done" THEN "Ok" ELSE "none"]
  /\ UNCHANGED <<received_tx, binds, tracks, drains, lockVars, rdVars, stVars,
                 dtlsVars, helperVars>>

\* receive, from the call to its first suspension inside the loop: the
\* received_tx lock is taken, the gate is tested and consumed.
ReceiveEnter(c, p) ==
  /\ rpc[c] = "idle"
  /\ IF ~received_tx
       THEN /\ rpc' = [rpc EXCEPT ![c] = "done"]
            /\ rres' = [rres EXCEPT ![c] = "ErrRTPReceiverReceiveAlreadyCalled"]
            /\ UNCHANGED <<received_tx, params, enc_i, pending>>
       ELSE /\ received_tx' = FALSE
            /\ params' = p
            /\ enc_i' = 1
            /\ pending' = NoStream
            /\ rpc' = [rpc EXCEPT ![c] = EncodingEntry(p, 1)]
            /\ rres' = [rres EXCEPT ![c] =
                          IF EncodingEntry(p, 1) = "done" THEN "Ok" ELSE "none"]
  /\ UNCHANGED <<binds, tracks, drains, lockVars, rdVars, stVars, dtlsVars>>

\* A task calls receive.
ReceiveCall(c, p) == ReceiveEnter(c, p) /\ UNCHANGED helperVars

\* ------------------------------------------------------- the start helper

StartSSRCs == {1, 3}       \* TrackDetails.ssrcs values
StartRids  == {"a", "b"}   \* TrackDetails.rids values

SeqsUpTo(S, n) == UNION {[1 .. k -> S] : k \in 0 .. n}

\* TrackDetails, as far as start reads it
TrackDetails ==
  [ssrcs : SeqsUpTo(StartSSRCs, MaxEnc), rids : SeqsUpTo(StartRids, MaxEnc),
   repair_ssrc : RtxSSRCs]

\* start_encodings that sizes the list by the SSRCs alone.
start_encodings_by_ssrcs(inc) ==
  [i \in 1 .. Len(inc.ssrcs) |->
     [ssrc |-> inc.ssrcs[i],
      rid  |-> IF Len(inc.rids) > i - 1 THEN inc.rids[i] ELSE "",
      rtx  |-> inc.repair_ssrc]]

\* The encodings start builds from the TrackDetails (the index i - 1 is the
\* zero-based i of the code).
start_encodings(inc) ==
  LET encoding_size ==
        IF Len(inc.rids) >= Len(inc.ssrcs) THEN Len(inc.rids)
        ELSE Len(inc.ssrcs) IN
    [i \in 1 .. encoding_size |->
       [ssrc |-> IF Len(inc.ssrcs) > i - 1 THEN inc.ssrcs[i] ELSE 0,
        rid  |-> IF Len(inc.rids) > i - 1 THEN inc.rids[i] ELSE "",
        rtx  |-> inc.repair_ssrc]]

\* A task calls start: the encodings are built and receive is entered.
StartCall(c, inc) ==
  /\ ReceiveEnter(c, start_encodings(inc))
  /\ incoming' = [incoming EXCEPT ![c] =
                    [called |-> TRUE, ssrcs |-> inc.ssrcs, rids |-> inc.rids,
                     repair_ssrc |-> inc.repair_ssrc]]
  /\ UNCHANGED <<labelled, rtx_call>>

\* receive has returned to start: on Err it logs and returns; on Ok it takes
\* the tracks() snapshot and sets id and stream id on each track.
StartFinish(c) ==
  /\ rpc[c] = "done"
  /\ incoming[c].called
  /\ IF rres[c] = "Ok"
       THEN /\ ~tracks_writer
            /\ labelled' = labelled \cup (1 .. Len(tracks))
       ELSE UNCHANGED labelled
  /\ rpc' = [rpc EXCEPT ![c] = "started"]
  /\ UNCHANGED <<rres, params, enc_i, pending, binds, incoming, rtx_call,
                 trkVars, lockVars, rdVars, stVars, dtlsVars>>

\* streams_for_ssrc(encoding.ssrc) answers; an Err leaves receive through `?`.
ReceiveBind(c, outcome) ==
  /\ rpc[c] = "bind"
  /\ binds' = binds \cup {[id |-> PrimaryId(enc_i), outcome |-> outcome]}
  /\ IF outcome = "err"
       THEN /\ rpc' = [rpc EXCEPT ![c] = "done"]
            /\ rres' = [rres EXCEPT ![c] = "ErrStreamsForSsrc"]
            /\ UNCHANGED pending
       ELSE /\ rpc' = [rpc EXCEPT ![c] = "push"]
            /\ pending' = streams_for_ssrc(PrimaryId(enc_i), outcome)
            /\ UNCHANGED rres
  /\ UNCHANGED <<params, enc_i, trkVars, lockVars, rdVars, stVars, dtlsVars,
                 helperVars>>

\* The TrackStreams entry receive builds for the encoding in hand.
NewTrack(c) ==
  [ssrc |-> params[enc_i].ssrc,
   rid  |-> params[enc_i].rid,
   by   |-> c,
   stream |-> IF params[enc_i].ssrc # 0 THEN pending ELSE NoStream,
   repair_stream |-> NoStream]

\* tracks.write() is granted: push the entry; then either suspend on the RTX
\* binding or move to the next encoding.
ReceivePush(c) ==
  /\ rpc[c] = "push"
  /\ TracksLockFree
  /\ tracks' = Append(tracks, NewTrack(c))
  /\ pending' = NoStream
  /\ IF params[enc_i].rtx # 0
       THEN /\ rpc' = [rpc EXCEPT ![c] = "bind_rtx"]
            /\ UNCHANGED <<enc_i, rres>>
       ELSE /\ enc_i' = enc_i + 1
            /\ rpc' = [rpc EXCEPT ![c] = EncodingEntry(params, enc_i + 1)]
            /\ rres' = [rres EXCEPT ![c] =
                          IF EncodingEntry(params, enc_i + 1) = "done"
                            THEN "Ok" ELSE "none"]
  /\ UNCHANGED <<params, binds, received_tx, drains, lockVars, rdVars, stVars,
                 dtlsVars, helperVars>>

\* streams_for_ssrc(rtx_ssrc) answers.
ReceiveBindRtx(c, outcome) ==
  /\ rpc[c] = "bind_rtx"
  /\ binds' = binds \cup {[id |-> RepairId(enc_i), outcome |-> outcome]}
  /\ IF outcome = "err"
       THEN /\ rpc' = [rpc EXCEPT ![c] = "done"]
            /\ rres' = [rres EXCEPT ![c] = "ErrStreamsForSsrc"]
            /\ UNCHANGED pending
       ELSE /\ rpc' = [rpc EXCEPT ![c] = "attach"]
            /\ pending' = streams_for_ssrc(RepairId(enc_i), outcome)
            /\ UNCHANGED rres
  /\ UNCHANGED <<params, enc_i, trkVars, lockVars, rdVars, stVars, dtlsVars,
                 helperVars>>

\* RtxTarget without the sole-track rule: the first track with the RID.
RtxTargetByRid(trks, ssrc, rsid) ==
  LET m == {k \in 1 .. Len(trks) : trks[k].rid = rsid}
  IN IF m = {} THEN 0 ELSE CHOOSE k \in m : \A j \in m : k <= j

\* receive_for_rtx: index of the first track the loop attaches to, 0 if none.
RtxTarget(trks, ssrc, rsid) ==
  LET m == {k \in 1 .. Len(trks) :
              (ssrc # 0 /\ Len(trks) = 1) \/ trks[k].rid = rsid}
  IN IF m = {} THEN 0 ELSE CHOOSE k \in m : \A j \in m : k <= j

\* receive_for_rtx(rtx_ssrc, "", repair_stream) once tracks.write() is
\* granted, and the rest of the loop body.
ReceiveForRtx(c) ==
  /\ rpc[c] = "attach"
  /\ TracksLockFree
  /\ LET k == RtxTarget(tracks, params[enc_i].rtx, "") IN
       IF k = 0
         THEN /\ rpc' = [rpc EXCEPT ![c] = "done"]
              /\ rres' = [rres EXCEPT ![c] = "ErrRTPReceiverForRIDTrackStreamNotFound"]
              /\ UNCHANGED <<tracks, drains, enc_i>>
         ELSE /\ tracks' = [tracks EXCEPT ![k].repair_stream = pending]
              /\ drains' = drains \cup
                   {[id |-> pending.stream_info,
                     rtp_interceptor |-> pending.rtp_interceptor]}
              /\ enc_i' = enc_i + 1
              /\ rpc' = [rpc EXCEPT ![c] = EncodingEntry(params, enc_i + 1)]
              /\ rres' = [rres EXCEPT ![c] =
                            IF EncodingEntry(params, enc_i + 1) = "done"
                              THEN "Ok" ELSE "none"]
  /\ pending' = NoStream
  /\ UNCHANGED <<params, binds, received_tx, lockVars, rdVars, stVars, dtlsVars,
                 helperVars>>

\* Identity of the repair pipeline handed to the n-th outside call.
OutsideId(n) == 2 * MaxEnc + n

\* receive_for_rtx(ssrc, rsid, repair_stream) called from outside receive,
\* once tracks.write() is granted.
ReceiveForRtxCall(ssrc, rsid, shape) ==
  /\ rtx_call.n < MaxRtxCalls
  /\ TracksLockFree
  /\ LET id == OutsideId(rtx_call.n + 1)
         repair_stream == streams_for_ssrc(id, shape)
         k == RtxTarget(tracks, ssrc, rsid)
         call == [n |-> rtx_call.n + 1, ssrc |-> ssrc, rsid |-> rsid, id |-> id]
     IN
       IF k = 0
         THEN /\ rtx_call' =
                   [res |-> "ErrRTPReceiverForRIDTrackStreamNotFound"] @@ call
              /\ UNCHANGED <<tracks, drains>>
         ELSE /\ rtx_call' = [res |-> "Ok"] @@ call
              /\ tracks' = [tracks EXCEPT ![k].repair_stream = repair_stream]
              /\ drains' = drains \cup
                   {[id |-> id, rtp_interceptor |-> repair_stream.rtp_interceptor]}
  /\ UNCHANGED <<rpc, rres, params, enc_i, pending, binds, incoming, labelled,
                 received_tx, lockVars, rdVars, stVars, dtlsVars>>

\* The task spawned by receive_for_rtx leaves its loop: its clone of the
\* track has no repair rtp_interceptor, or the read fails because the repair
\* RTP stream has been closed.
DrainExit(d) ==
  /\ d \in drains
  /\ d.rtp_interceptor = 0 \/ <<d.rtp_interceptor, "rtp">> \in closed
  /\ drains' = drains \ {d}
  /\ UNCHANGED <<received_tx, tracks, rcvVars, lockVars, rdVars, stVars, dtlsVars>>

\* ------------------------------------------------- read / read_simulcast

ReadOps ==
  {[kind |-> "read", rid |-> ""]}
    \cup {[kind |-> "read_simulcast", rid |-> x] : x \in ReadRids}

\* read after the gate: what the look at tracks.first() decides.
ReadScan(trks) ==
  IF trks = <<>> THEN [res |-> "ErrExistingTrack", src |-> 0]
  ELSE IF trks[1].stream.rtcp_interceptor = 0
    THEN [res |-> "ErrInterceptorNotBind", src |-> 0]
    ELSE [res |-> "wait", src |-> trks[1].stream.rtcp_interceptor]

\* SimulcastScan that walks past a matching track without rtcp_interceptor
\* instead of returning ErrInterceptorNotBind.
SimulcastScanSkipsUnbound(trks, rid) ==
  LET m == {k \in 1 .. Len(trks) :
              trks[k].rid = rid /\ trks[k].stream.rtcp_interceptor # 0} IN
    IF m = {} THEN [res |-> "ErrRTPReceiverForRIDTrackStreamNotFound", src |-> 0]
    ELSE LET k == CHOOSE k \in m : \A j \in m : k <= j IN
      [res |-> "wait", src |-> trks[k].stream.rtcp_interceptor]

\* read_simulcast after the gate: the loop stops at the first track whose
\* rid matches.
SimulcastScan(trks, rid) ==
  LET m == {k \in 1 .. Len(trks) : trks[k].rid = rid} IN
    IF m = {} THEN [res |-> "ErrRTPReceiverForRIDTrackStreamNotFound", src |-> 0]
    ELSE LET k == CHOOSE k \in m : \A j \in m : k <= j IN
      IF trks[k].stream.rtcp_interceptor = 0
        THEN [res |-> "ErrInterceptorNotBind", src |-> 0]
        ELSE [res |-> "wait", src |-> trks[k].stream.rtcp_interceptor]

Scan(op, trks) ==
  IF op.kind = "read" THEN ReadScan(trks) ELSE SimulcastScan(trks, op.rid)

\* A task calls read or read_simulcast and queues for the received_rx lock.
ReadCall(r, op) ==
  /\ dpc[r] = "idle"
  /\ dpc' = [dpc EXCEPT ![r] = "gate_lock"]
  /\ dop' = [dop EXCEPT ![r] = op]
  /\ after_stop' = [after_stop EXCEPT ![r] = stop_invoked]
  /\ UNCHANGED <<dres, dsrc, woken, queued_at_stop, rcvVars, trkVars,
                 lockVars, stVars, dtlsVars>>

\* The received_rx lock is granted: the select! creates recv() and
\* closed_rx.notified() and waits on both.
ReadGateLock(r) ==
  /\ dpc[r] = "gate_lock"
  /\ received_rx_lock = 0
  /\ received_rx_lock' = r
  /\ dpc' = [dpc EXCEPT ![r] = "gate_wait"]
  /\ UNCHANGED <<dop, dres, dsrc, woken, after_stop, queued_at_stop,
                 tracks_writer, tracks_readers, rcvVars, trkVars, stVars,
                 dtlsVars>>

\* The first select! resolves: recv() returns once every Sender is gone;
\* notified() returns once a notify_waiters has reached this waiter.
ReadGate(r, branch) ==
  /\ dpc[r] = "gate_wait"
  /\ \/ /\ branch = "received"
        /\ ~SenderAlive
        /\ dpc' = [dpc EXCEPT ![r] = "tracks_lock"]
        /\ UNCHANGED dres
     \/ /\ branch = "closed"
        /\ r \in woken
        /\ dpc' = [dpc EXCEPT ![r] = "done"]
        /\ dres' = [dres EXCEPT ![r] = "ErrClosedPipe"]
  /\ received_rx_lock' = 0
  /\ woken' = woken \ {r}
  /\ UNCHANGED <<dop, dsrc, after_stop, queued_at_stop, tracks_writer,
                 tracks_readers, rcvVars, trkVars, stVars, dtlsVars>>

\* tracks.read() is granted: look the track up; with a bound rtcp_interceptor
\* the second select! is entered with the shared lock held.
ReadTracks(r) ==
  /\ dpc[r] = "tracks_lock"
  /\ ~tracks_writer
  /\ LET sc == Scan(dop[r], tracks) IN
       IF sc.res = "wait"
         THEN /\ dpc' = [dpc EXCEPT ![r] = "rtcp_wait"]
              /\ dsrc' = [dsrc EXCEPT ![r] = sc.src]
              /\ tracks_readers' = tracks_readers \cup {r}
              /\ UNCHANGED dres
         ELSE /\ dpc' = [dpc EXCEPT ![r] = "done"]
              /\ dres' = [dres EXCEPT ![r] = sc.res]
              /\ UNCHANGED <<dsrc, tracks_readers>>
  /\ UNCHANGED <<dop, woken, after_stop, queued_at_stop, tracks_writer,
                 received_rx_lock, rcvVars, trkVars, stVars, dtlsVars>>

\* The second select! resolves: notified(), or rtcp_interceptor.read, which
\* yields data while its stream is open and fails once it has been closed.
ReadRtcp(r, branch) ==
  /\ dpc[r] = "rtcp_wait"
  /\ \/ /\ branch = "closed"
        /\ r \in woken
        /\ dres' = [dres EXCEPT ![r] = "ErrClosedPipe"]
     \/ /\ branch = "data"
        /\ <<dsrc[r], "rtcp">> \notin closed
        /\ dres' = [dres EXCEPT ![r] = "Ok"]
     \/ /\ branch = "err"
        /\ <<dsrc[r], "rtcp">> \in closed
        /\ dres' = [dres EXCEPT ![r] = "ErrInterceptorRead"]
  /\ dpc' = [dpc EXCEPT ![r] = "done"]
  /\ tracks_readers' = tracks_readers \ {r}
  /\ woken' = woken \ {r}
  /\ UNCHANGED <<dop, dsrc, after_stop, queued_at_stop, tracks_writer,
                 received_rx_lock, rcvVars, trkVars, stVars, dtlsVars>>

\* -------------------------------------------------------------------- stop

\* closed_tx.notify_waiters(): reaches exactly the notified() futures that
\* exist now, i.e. the readers inside one of the two select!s.
StopNotify(max) ==
  /\ spc = "idle"
  /\ nstops < max
  /\ nstops' = nstops + 1
  /\ stop_invoked' = TRUE
  /\ stop_after_receive' = IF received_tx THEN "no"
                           ELSE IF ReceiveReturned THEN "returned"
                           ELSE "running"
  /\ woken' = woken \cup {r \in Readers : dpc[r] \in {"gate_wait", "rtcp_wait"}}
  /\ queued_at_stop' =
       [r \in Readers |->
          queued_at_stop[r] \/ (dpc[r] = "gate_lock" /\ received_rx_lock # 0)]
  /\ spc' = "gate"
  /\ UNCHANGED <<sres, s_i, errs, failed, closed, unbound, dpc, dop, dres, dsrc,
                 after_stop, rcvVars, trkVars, lockVars, dtlsVars>>

\* flatten_errs
flatten_errs(es) == IF es = <<>> THEN "Ok" ELSE "ErrFlattened"

\* StopGate that consumes the gate it only has to look at.
StopGateTakes ==
  /\ spc = "gate"
  /\ errs' = <<>>
  /\ failed' = {}
  /\ received_tx' = FALSE
  /\ IF received_tx
       THEN /\ spc' = "done"
            /\ sres' = flatten_errs(<<>>)
       ELSE /\ spc' = "wlock"
            /\ UNCHANGED sres
  /\ UNCHANGED <<s_i, nstops, stop_invoked, stop_after_receive, closed, unbound, rcvVars, tracks,
                 drains, lockVars, rdVars, dtlsVars>>

\* The received_tx lock is granted: received_tx_is_none is read; with the
\* gate unconsumed stop returns flatten_errs(vec![]).
StopGate ==
  /\ spc = "gate"
  /\ errs' = <<>>
  /\ failed' = {}
  /\ IF received_tx
       THEN /\ spc' = "done"
            /\ sres' = flatten_errs(<<>>)
       ELSE /\ spc' = "wlock"
            /\ UNCHANGED sres
  /\ UNCHANGED <<s_i, nstops, stop_invoked, stop_after_receive, closed, unbound, rcvVars, trkVars,
                 lockVars, rdVars, dtlsVars>>

\* The read streams of one track in the order stop closes them.
TrackHandles(t) ==
  SelectSeq(<< <<t.stream.rtcp_read_stream, "rtcp">>,
               <<t.stream.rtp_read_stream, "rtp">>,
               <<t.repair_stream.rtcp_read_stream, "rtcp">>,
               <<t.repair_stream.rtp_read_stream, "rtp">> >>,
            LAMBDA h : h[1] # 0)

\* The stream descriptors of one track stop unbinds.
TrackInfos(t) == {t.stream.stream_info, t.repair_stream.stream_info} \ {0}

Range(f) == {f[x] : x \in DOMAIN f}

\* tracks.write() is granted to stop.
StopLock ==
  /\ spc = "wlock"
  /\ TracksLockFree
  /\ IF tracks = <<>>
       THEN /\ spc' = "done"
            /\ sres' = flatten_errs(errs)
            /\ UNCHANGED <<tracks_writer, s_i>>
       ELSE /\ spc' = "closing"
            /\ tracks_writer' = TRUE
            /\ s_i' = 1
            /\ UNCHANGED sres
  /\ UNCHANGED <<errs, failed, nstops, stop_invoked, stop_after_receive, closed, unbound,
                 tracks_readers,
                 received_rx_lock, rcvVars, trkVars, rdVars, dtlsVars>>

\* StopCloseTrack that gives up at the first close that answers Err: the
\* streams after it are not closed, nothing more is unbound, stop returns.
StopCloseTrackAborts(fails) ==
  /\ spc = "closing"
  /\ LET hs == TrackHandles(tracks[s_i])
         bad == {n \in 1 .. Len(hs) : hs[n] \in fails}
         cut == IF bad = {} THEN Len(hs)
                ELSE CHOOSE n \in bad : \A m \in bad : n <= m
         tried == SubSeq(hs, 1, cut)
         es == errs \o SelectSeq(tried, LAMBDA h : h \in fails) IN
       /\ fails \subseteq Range(hs)
       /\ closed' = closed \cup Range(tried)
       /\ unbound' = IF bad = {} THEN unbound \cup TrackInfos(tracks[s_i])
                     ELSE unbound
       /\ errs' = es
       /\ failed' = failed \cup (fails \cap Range(tried))
       /\ IF s_i = Len(tracks) \/ bad # {}
            THEN /\ spc' = "done"
                 /\ sres' = flatten_errs(es)
                 /\ tracks_writer' = FALSE
                 /\ UNCHANGED s_i
            ELSE /\ s_i' = s_i + 1
                 /\ UNCHANGED <<spc, sres, tracks_writer>>
  /\ UNCHANGED <<nstops, stop_invoked, stop_after_receive, tracks_readers, received_rx_lock,
                 rcvVars, trkVars, rdVars, dtlsVars>>

\* One pass of stop's loop: close the four read streams of track s_i that
\* exist (those in fails answer Err), unbind its descriptors; after the last
\* track, return flatten_errs(errs) and release the lock.
StopCloseTrack(fails) ==
  /\ spc = "closing"
  /\ LET hs == TrackHandles(tracks[s_i])
         es == errs \o SelectSeq(hs, LAMBDA h : h \in fails) IN
       /\ fails \subseteq Range(hs)
       /\ closed' = closed \cup Range(hs)
       /\ unbound' = unbound \cup TrackInfos(tracks[s_i])
       /\ errs' = es
       /\ failed' = failed \cup fails
       /\ IF s_i = Len(tracks)
            THEN /\ spc' = "done"
                 /\ sres' = flatten_errs(es)
                 /\ tracks_writer' = FALSE
                 /\ UNCHANGED s_i
            ELSE /\ s_i' = s_i + 1
                 /\ UNCHANGED <<spc, sres, tracks_writer>>
  /\ UNCHANGED <<nstops, stop_invoked, stop_after_receive, tracks_readers, received_rx_lock,
                 rcvVars, trkVars, rdVars, dtlsVars>>

\* The caller takes the result of stop; stop may be called again.
StopReturn ==
  /\ spc = "done"
  /\ spc' = "idle"
  /\ sres' = "none"
  /\ UNCHANGED <<s_i, errs, failed, nstops, stop_invoked, stop_after_receive, closed, unbound,
                 rcvVars, trkVars, lockVars, rdVars, dtlsVars>>

Handles == ((1 .. 2 * MaxEnc) \X {"rtp", "rtcp"})

\* receive under any interleaving of its callers, with the repair-drain tasks.
NextReceive ==
  \/ \E c \in Receivers, p \in ReceiveParameters : ReceiveCall(c, p)
  \/ \E c \in Receivers, o \in BindOutcomes : ReceiveBind(c, o)
  \/ \E c \in Receivers : ReceivePush(c)
  \/ \E c \in Receivers, o \in BindOutcomes : ReceiveBindRtx(c, o)
  \/ \E c \in Receivers : ReceiveForRtx(c)
  \/ \E d \in drains : DrainExit(d)

\* What receive is called with where stop or readers run beside it.
SmallParameters ==
  UNION {[1 .. n -> Encodings] : n \in 0 .. MaxSmallEnc}

\* Repeated stop against receive, under any interleaving.
NextStop ==
  \/ \E c \in Receivers, p \in SmallParameters : ReceiveCall(c, p)
  \/ \E c \in Receivers, o \in BindOutcomes : ReceiveBind(c, o)
  \/ \E c \in Receivers : ReceivePush(c)
  \/ \E c \in Receivers, o \in BindOutcomes : ReceiveBindRtx(c, o)
  \/ \E c \in Receivers : ReceiveForRtx(c)
  \/ \E d \in drains : DrainExit(d)
  \/ StopNotify(MaxStops)
  \/ StopGate
  \/ StopLock
  \/ \E fails \in SUBSET Handles : StopCloseTrack(fails)
  \/ StopReturn

\* The start helper, and receive_for_rtx as its other callers use it.
NextHelper ==
  \/ \E inc \in TrackDetails : StartCall(1, inc)
  \/ \E o \in BindOutcomes : ReceiveBind(1, o)
  \/ ReceivePush(1)
  \/ \E o \in BindOutcomes : ReceiveBindRtx(1, o)
  \/ ReceiveForRtx(1)
  \/ StartFinish(1)
  \/ \E ssrc \in RtxSSRCs, rsid \in RIDs \cup StartRids, shape \in BindShapes :
       ReceiveForRtxCall(ssrc, rsid, shape)
  \/ \E d \in drains : DrainExit(d)

\* One receive call and one stop, under any interleaving.
NextClose ==
  \/ \E p \in ReceiveParameters : ReceiveCall(1, p)
  \/ \E o \in BindOutcomes : ReceiveBind(1, o)
  \/ ReceivePush(1)
  \/ \E o \in BindOutcomes : ReceiveBindRtx(1, o)
  \/ ReceiveForRtx(1)
  \/ \E d \in drains : DrainExit(d)
  \/ StopNotify(MaxReadStops)
  \/ StopGate
  \/ StopLock
  \/ \E fails \in SUBSET Handles : StopCloseTrack(fails)
  \/ StopReturn

\* What receive is called with while readers run: encodings without RTX.
ReadParameters ==
  UNION {[1 .. n -> [ssrc : SSRCs, rid : RIDs, rtx : {0}]] : n \in 0 .. MaxSmallEnc}

\* Readers against one receive call and one stop, under any interleaving.
NextRead ==
  \/ \E p \in ReadParameters : ReceiveCall(1, p)
  \/ \E o \in BindOutcomes : ReceiveBind(1, o)
  \/ ReceivePush(1)
  \/ \E r \in Readers, op \in ReadOps : ReadCall(r, op)
  \/ \E r \in Readers : ReadGateLock(r)
  \/ \E r \in Readers, b \in {"received", "closed"} : ReadGate(r, b)
  \/ \E r \in Readers : ReadTracks(r)
  \/ \E r \in Readers, b \in {"closed", "data", "err"} : ReadRtcp(r, b)
  \/ StopNotify(MaxReadStops)
  \/ StopGate
  \/ StopLock
  \/ \E fails \in SUBSET Handles : StopCloseTrack(fails)
  \/ StopReturn

\* ========================================================= specifications

NextDtls ==
  \/ IceStart
  \/ \E h \in Handlers : OnStateChange(h)
  \/ \E bad \in SUBSET (1 .. MaxCerts) : GetLocalParameters(bad)
  \/ \E p \in Starters, endpoint \in BOOLEAN : StartBegin(p, endpoint)
  \/ \E p \in Starters : StartPrepare(p)
  \/ \E p \in Starters : StateChangeNotify(p)
  \/ \E p \in Starters, call \in HandlerCalls, endpoint \in BOOLEAN :
       HandlerRun(p, call, endpoint)
  \/ \E p \in Starters, ok \in BOOLEAN : Handshake(p, ok)
  \/ \E p \in Starters : StoreConn(p)
  \/ \E p \in Starters : StartReturn(p)

Init == InitDtls /\ InitRecv

\* A receiver over a transport that has all its certificates.
InitReceiver == Init /\ Len(certificates) = MaxCerts

SpecDtls == Init /\ [][NextDtls]_vars

\* The steps the runtime owes a task inside start: a granted lock, a handler
\* that runs on, an answer of the handshake.
DtlsFairness ==
  \A p \in Starters :
    /\ WF_vars(StartPrepare(p))
    /\ WF_vars(StateChangeNotify(p))
    /\ WF_vars(\E call \in HandlerCalls, endpoint \in BOOLEAN :
                 HandlerRun(p, call, endpoint))
    /\ WF_vars(\E ok \in BOOLEAN : Handshake(p, ok))
    /\ WF_vars(StoreConn(p))

FairSpecDtls == SpecDtls /\ DtlsFairness

SpecReceive == InitReceiver /\ [][NextReceive]_vars

SpecStop == InitReceiver /\ [][NextStop]_vars

SpecRead == InitReceiver /\ [][NextRead]_vars

SpecClose == InitReceiver /\ [][NextClose]_vars

SpecHelper == InitReceiver /\ [][NextHelper]_vars

\* The steps the runtime owes a task that has been called: a granted lock, a
\* resolved select!, the answer to a binding, a close.  Calls themselves and
\* the arrival of RTCP data are up to the environment.
ReadFairness ==
  /\ \A r \in Readers :
       /\ WF_vars(ReadGateLock(r))
       /\ WF_vars(\E b \in {"received", "closed"} : ReadGate(r, b))
       /\ WF_vars(ReadTracks(r))
       /\ WF_vars(\E b \in {"closed", "err"} : ReadRtcp(r, b))
  /\ WF_vars(\E o \in BindOutcomes : ReceiveBind(1, o))
  /\ WF_vars(ReceivePush(1))
  /\ WF_vars(StopGate)
  /\ WF_vars(StopLock)
  /\ WF_vars(\E fails \in SUBSET Handles : StopCloseTrack(fails))

FairSpecRead == SpecRead /\ ReadFairness

\* The same for one receive call, one stop and the repair-drain tasks: a
\* drain task whose read has failed leaves its loop.
CloseFairness ==
  /\ WF_vars(\E o \in BindOutcomes : ReceiveBind(1, o))
  /\ WF_vars(ReceivePush(1))
  /\ WF_vars(\E o \in BindOutcomes : ReceiveBindRtx(1, o))
  /\ WF_vars(ReceiveForRtx(1))
  /\ WF_vars(\E d \in drains : DrainExit(d))
  /\ WF_vars(StopGate)
  /\ WF_vars(StopLock)
  /\ WF_vars(\E fails \in SUBSET Handles : StopCloseTrack(fails))

FairSpecClose == SpecClose /\ CloseFairness

\* ------------------------------------------------ negotiator properties

\* C1: a start call issued after an earlier start has returned Ok fails with
\* ErrInvalidDTLSStart whatever new_endpoint answers, and once the state has
\* left New it is never New again.
C1_SecondStartIsSequenceError ==
  /\ \A p \in Starters :
       (tpc[p] = "done" /\ after_ok[p]) => tres[p] = "ErrInvalidDTLSStart"
  /\ left_new => state # "New"

AllowedTransitions ==
  {<<"New", "Connecting">>, <<"Connecting", "Connected">>,
   <<"Connecting", "Failed">>}

\* C2: every change of the state is New->Connecting, Connecting->Connected or
\* Connecting->Failed.
C2_OrderedTransitions ==
  [][state' # state => <<state, state'>> \in AllowedTransitions]_vars

\* C3: the secure-channel slot is set only if the state is Connected.
C3_ConnOnlyWhenConnected == state # "Connected" => conn = 0

\* C4: the step in which a start call fails on the handshake or on a missing
\* endpoint leaves the state Failed and the secure-channel slot unset (the
\* call then returns that error).
C4_FailureLeavesSlotUnset ==
  [][\A p \in Starters :
       (tres'[p] \in {"ErrHandshakeFailed", "ErrNewEndpointFailed"}
          /\ tres[p] # tres'[p])
         => (state' = "Failed" /\ conn' = 0)]_vars

\* -------------------------------------------------- receiver properties

AlreadyCalled == "ErrRTPReceiverReceiveAlreadyCalled"

\* C5: under any interleaving of receive calls exactly one call passes the
\* one-shot gate; every other call fails with ReceiveAlreadyCalled, and the
\* step in which it fails leaves the track collection as it was (every entry
\* the collection holds was pushed by the call that passed).
C5_OneReceivePassesGate ==
  /\ [](/\ Cardinality(PassedGate) <= 1
        /\ (\E c \in Receivers : rpc[c] # "idle") => Cardinality(PassedGate) = 1
        /\ \A k \in 1 .. Len(tracks) : tracks[k].by \in PassedGate)
  /\ [][\A c \in Receivers :
          (rres'[c] = AlreadyCalled /\ rres[c] # AlreadyCalled)
            => (tracks' = tracks /\ PassedGate' = PassedGate)]_vars

\* C5 witness: a second call has failed at the gate while the first one has
\* already pushed a track and is still running.
C5_Witness ==
  \E c1, c2 \in Receivers :
    /\ rpc[c1] = "done" /\ rres[c1] = AlreadyCalled
    /\ rpc[c2] \in {"bind_rtx", "attach", "bind", "push"}
    /\ tracks # <<>>

\* C6: a read / read_simulcast that is waiting for the gate's lock behind
\* another reader when stop is invoked eventually returns (the second of the
\* three blocked positions the claim names).
C6_BlockedReadersReturn ==
  \A r \in Readers : queued_at_stop[r] ~> (dpc[r] = "done")

\* C7: a read / read_simulcast issued after stop has been invoked eventually
\* returns.
C7_ReadAfterStopReturns ==
  \A r \in Readers : (after_stop[r] /\ dpc[r] # "idle") ~> (dpc[r] = "done")

NeverReceived == \A c \in Receivers : rpc[c] = "idle"

\* C8: as long as receive has not been invoked, stop (once or repeatedly)
\* returns Ok, closes and unbinds nothing, and leaves the track collection
\* and the receive gate as they were, so that a later receive passes the gate.
C8_StopBeforeReceive ==
  NeverReceived =>
    /\ received_tx
    /\ tracks = <<>>
    /\ closed = {} /\ unbound = {}
    /\ spc \notin {"wlock", "closing"}
    /\ spc = "done" => sres = "Ok"

\* C8 witness: the second stop has returned Ok, receive not yet invoked.
C8_Witness ==
  NeverReceived /\ nstops = 2 /\ spc = "done" /\ sres = "Ok"

\* A finished read_simulcast that got past the gate and looked at the tracks.
Scanned(r) ==
  dpc[r] = "done" /\ dop[r].kind = "read_simulcast" /\ dres[r] # "ErrClosedPipe"

CarriesRid(rid) == \E k \in 1 .. Len(tracks) : tracks[k].rid = rid

HasBoundRid(rid) ==
  \E k \in 1 .. Len(tracks) :
    tracks[k].rid = rid /\ tracks[k].stream.rtcp_interceptor # 0

FirstWithRid(rid) ==
  CHOOSE k \in 1 .. Len(tracks) :
    tracks[k].rid = rid /\ \A j \in 1 .. k - 1 : tracks[j].rid # rid

\* C9 as claimed: read_simulcast fails with ForRidTrackStreamNotFound exactly
\* when no track with that RID has a bound RTCP pipeline.
C9_NotFoundIffNoBoundTrack ==
  \A r \in Readers :
    Scanned(r) =>
      (dres[r] = "ErrRTPReceiverForRIDTrackStreamNotFound"
         <=> ~HasBoundRid(dop[r].rid))

\* C9 amended: read_simulcast fails with ForRidTrackStreamNotFound exactly
\* when no track carries the RID; when the first track carrying it has no
\* rtcp_interceptor it fails with ErrInterceptorNotBind; data it returns comes
\* from the rtcp_interceptor of the first track carrying the RID.
C9_NotFoundIffNoTrackWithRid ==
  \A r \in Readers :
    Scanned(r) =>
      /\ dres[r] = "ErrRTPReceiverForRIDTrackStreamNotFound"
           <=> ~CarriesRid(dop[r].rid)
      /\ dres[r] = "ErrInterceptorNotBind"
           <=> (CarriesRid(dop[r].rid)
                  /\ tracks[FirstWithRid(dop[r].rid)].stream.rtcp_interceptor = 0)
      /\ dres[r] = "Ok"
           => (/\ CarriesRid(dop[r].rid)
               /\ dsrc[r] # 0
               /\ dsrc[r] = tracks[FirstWithRid(dop[r].rid)].stream.rtcp_interceptor)

\* C9 witness: one read_simulcast has returned data of the bound track with
\* its RID, another one has failed on a track that carries its RID unbound or
\* on a RID no track carries.
C9_Witness ==
  \E r1, r2 \in Readers :
    /\ Scanned(r1) /\ dres[r1] = "Ok"
    /\ Scanned(r2)
    /\ dres[r2] \in {"ErrRTPReceiverForRIDTrackStreamNotFound", "ErrInterceptorNotBind"}

Requested == {b.id : b \in binds}

\* What the entry for encoding i has to look like.
EntryMatches(i) ==
  /\ tracks[i].ssrc = params[i].ssrc
  /\ tracks[i].rid = params[i].rid
  /\ params[i].ssrc = 0 =>
       (tracks[i].stream = NoStream /\ PrimaryId(i) \notin Requested)

\* C10 as claimed: when receive returns, the collection holds one entry per
\* encoding, in encoding order, whether or not a binding succeeded.
C10_EntryPerEncoding ==
  \A c \in PassedGate :
    rpc[c] = "done" =>
      /\ Len(tracks) = Len(params)
      /\ \A i \in 1 .. Len(params) : EntryMatches(i)

\* C10 amended: when receive returns Ok the collection holds one entry per
\* encoding, in encoding order; when a binding or the repair attachment of
\* encoding i fails, receive returns that error at once and the collection
\* holds the entries of encodings 1..i-1 (primary binding failed) or 1..i
\* (RTX binding or attachment failed); an entry for an encoding with SSRC
\* zero has no primary pipeline and no binding was requested for it.
C10_EntryPerEncodingReached ==
  \A c \in PassedGate :
    rpc[c] = "done" =>
      /\ rres[c] = "Ok" => Len(tracks) = Len(params)
      /\ rres[c] # "Ok" =>
           /\ enc_i \in 1 .. Len(params)
           /\ Len(tracks) =
                IF [id |-> PrimaryId(enc_i), outcome |-> "err"] \in binds
                  THEN enc_i - 1 ELSE enc_i
      /\ \A i \in 1 .. Len(tracks) : EntryMatches(i)

\* C10 witness: receive has returned Ok for two encodings, the first with
\* SSRC zero, the second bound.
C10_Witness ==
  \E c \in PassedGate :
    /\ rpc[c] = "done" /\ rres[c] = "Ok"
    /\ Len(params) = 2 /\ Len(tracks) = 2
    /\ params[1].ssrc = 0 /\ params[2].ssrc # 0
    /\ tracks[2].stream.stream_info = PrimaryId(2)

\* --------------------------------------------------- repair attachment

\* Every streams_for_ssrc call made so far has answered Ok.
NoBindingFailed == \A b \in binds : b.outcome # "err"

\* C11: after a receive in which every binding succeeded, the collection
\* holds one track per encoding and, for every encoding that declares a
\* nonzero RTX SSRC, the pipeline bound for that RTX SSRC is the repair_stream
\* of the track created for that encoding; no step replaces a repair_stream
\* that has been attached.
C11_RepairOnOwnTrack ==
  /\ [](\A c \in PassedGate :
          (rpc[c] = "done" /\ NoBindingFailed) =>
            /\ Len(tracks) = Len(params)
            /\ \A i \in 1 .. Len(params) :
                 params[i].rtx # 0 =>
                   tracks[i].repair_stream.stream_info = RepairId(i))
  /\ [][\A k \in 1 .. Len(tracks) :
          tracks[k].repair_stream # NoStream =>
            tracks'[k].repair_stream = tracks[k].repair_stream]_vars

\* ------------------------------------------------------------ stop's loop

\* C12: in the step in which a stop that found the gate consumed returns,
\* every read stream held by every track (primary and repair, RTP and RTCP)
\* has had close called on it and every held stream descriptor has been
\* unbound, whichever closes failed; the result is an error exactly if some
\* close of this call failed, and the errors handed to flatten_errs are
\* exactly those failures, one each.
C12_StopClosesEverything ==
  [][(spc \in {"wlock", "closing"} /\ spc' = "done") =>
       /\ \A k \in 1 .. Len(tracks') :
            /\ Range(TrackHandles(tracks'[k])) \subseteq closed'
            /\ TrackInfos(tracks'[k]) \subseteq unbound'
       /\ (sres' # "Ok") <=> (failed' # {})
       /\ sres' = flatten_errs(errs')
       /\ Range(errs') = failed'
       /\ Len(errs') = Cardinality(failed')]_vars

\* C12 witness: stop has returned an error over two tracks; the very first
\* close failed and so did a close on the second track, and every read stream
\* of both tracks has been closed, every descriptor unbound.
C12_Witness ==
  /\ spc = "done" /\ sres # "Ok"
  /\ Len(tracks) = 2
  /\ TrackHandles(tracks[1]) # <<>>
  /\ TrackHandles(tracks[1])[1] \in failed
  /\ failed \cap Range(TrackHandles(tracks[2])) # {}
  /\ \A k \in 1 .. 2 :
       /\ Range(TrackHandles(tracks[k])) \subseteq closed
       /\ TrackInfos(tracks[k]) \subseteq unbound

\* ------------------------------------------------ negotiator, continued

\* C13: a start call made while the connectivity layer is in its New state
\* returns ErrICEConnectionNotStarted whatever new_endpoint answers, and the
\* step leaves the state as it was, with no handshake driven.
C13_IceCheckedFirst ==
  [][\A p \in Starters :
       (tpc[p] = "idle" /\ tpc'[p] # "idle" /\ ice_state = "New") =>
         /\ tpc'[p] = "done"
         /\ tres'[p] = "ErrICEConnectionNotStarted"
         /\ state' = state]_vars

RECURSIVE Concat(_)
Concat(seqs) == IF seqs = <<>> THEN <<>> ELSE Head(seqs) \o Concat(Tail(seqs))

\* C14: get_local_parameters on a negotiator with no certificate fails with
\* ErrNonCertificate; with N certificates, a call that returns Ok returns
\* the concatenation of their fingerprint sets in certificate order.
C14_LocalParameters ==
  lp_res.res # "none" =>
    IF certificates = <<>>
      THEN lp_res.res = "ErrNonCertificate"
      ELSE lp_res.res = "Ok" =>
             lp_res.fingerprints =
               Concat([n \in 1 .. Len(certificates) |->
                         get_fingerprints(certificates[n])])

Stores(v) == {n \in 1 .. Len(stored) : stored[n] = v}

\* C16: under any interleaving of start calls at most one call gets past the
\* state == New check and on to the handshake (Connecting is stored at most
\* once), and the secure-channel slot is assigned at most once.
C16_NegotiatesAtMostOnce ==
  /\ Cardinality(Stores("Connecting")) <= 1
  /\ Cardinality(Stores("Connected")) <= 1

\* C17: the handler is passed the states in the order in which they were
\* stored: whenever it has been called once per store, the sequence it was
\* passed is the sequence of stores (so the last state it saw is state()).
C17_HandlerSeesStoresInOrder ==
  Len(delivered) = Len(stored) => delivered = stored

\* C18: whatever method of the negotiator a state-change handler calls, the
\* start call that notified it completes.
C18_HandlerMayCallBack ==
  \A p \in Starters : (tpc[p] = "handler") ~> (tpc[p] = "done")

\* ------------------------------------------- start helper, receive_for_rtx

Max(a, b) == IF a >= b THEN a ELSE b

\* C15: the receive call made by the start helper carries exactly
\* max(len(ssrcs), len(rids)) encodings; encoding i has ssrcs[i] when it
\* exists (else SSRC 0), rids[i] when it exists (else the empty RID), and the
\* signaled repair SSRC as its RTX SSRC.
C15_StartBuildsEncodings ==
  \A c \in PassedGate :
    incoming[c].called =>
      /\ Len(params) = Max(Len(incoming[c].ssrcs), Len(incoming[c].rids))
      /\ \A i \in 1 .. Len(params) :
           /\ params[i].ssrc = IF i \in DOMAIN incoming[c].ssrcs
                                 THEN incoming[c].ssrcs[i] ELSE 0
           /\ params[i].rid = IF i \in DOMAIN incoming[c].rids
                                THEN incoming[c].rids[i] ELSE ""
           /\ params[i].rtx = incoming[c].repair_ssrc

\* C15 witness: ssrcs = [1, 3], rids = [], repair_ssrc = 2 has given the two
\* encodings {1, rtx 2} and {3, rtx 2}.
C15_Witness ==
  \E c \in PassedGate :
    /\ incoming[c] = [called |-> TRUE, ssrcs |-> <<1, 3>>, rids |-> <<>>,
                      repair_ssrc |-> 2]
    /\ params = <<[ssrc |-> 1, rid |-> "", rtx |-> 2],
                  [ssrc |-> 3, rid |-> "", rtx |-> 2]>>

\* C19: a receive_for_rtx(ssrc, rsid, repair) call attaches the repair
\* pipeline to exactly one track: the sole track when the collection holds
\* exactly one track and ssrc is nonzero, otherwise the (first) track whose
\* RID equals rsid; every other track and every other field stay as they
\* were and one drain task is spawned; when no track qualifies the call fails
\* with ForRidTrackStreamNotFound, changes no track and spawns no drain task.
C19_RepairAttachedByRule ==
  [][rtx_call'.n # rtx_call.n =>
       LET a == rtx_call'
           sole == Len(tracks) = 1 /\ a.ssrc # 0
           qualifies == IF sole THEN {1}
                        ELSE {k \in 1 .. Len(tracks) : tracks[k].rid = a.rsid}
       IN IF qualifies = {}
            THEN /\ a.res = "ErrRTPReceiverForRIDTrackStreamNotFound"
                 /\ tracks' = tracks
                 /\ drains' = drains
            ELSE LET k == CHOOSE n \in qualifies : \A m \in qualifies : n <= m
                 IN /\ a.res = "Ok"
                    /\ Len(tracks') = Len(tracks)
                    /\ tracks'[k].repair_stream.stream_info = a.id
                    /\ tracks'[k].stream = tracks[k].stream
                    /\ tracks'[k].rid = tracks[k].rid
                    /\ tracks'[k].ssrc = tracks[k].ssrc
                    /\ \A j \in (1 .. Len(tracks)) \ {k} : tracks'[j] = tracks[j]
                    /\ drains' = drains \cup
                         {[id |-> a.id,
                           rtp_interceptor |->
                             tracks'[k].repair_stream.rtp_interceptor]}]_vars

\* C19 witness: a call with a nonzero ssrc and an rsid the sole track does
\* not carry has attached its pipeline to that track.
C19_Witness ==
  /\ rtx_call.res = "Ok" /\ rtx_call.ssrc # 0
  /\ Len(tracks) = 1
  /\ tracks[1].rid # rtx_call.rsid
  /\ tracks[1].repair_stream.stream_info = rtx_call.id

\* ------------------------------------------------------ first-receive gate

\* Some receive call has returned Ok.
ReceiveSucceeded ==
  \E c \in Receivers : rpc[c] \in {"done", "started"} /\ rres[c] = "Ok"

\* The reader is past the first select!: it waits for or holds the tracks
\* lock, or has returned something other than ErrClosedPipe.
PastGate(r) ==
  \/ dpc[r] \in {"tracks_lock", "rtcp_wait"}
  \/ dpc[r] = "done" /\ dres[r] # "ErrClosedPipe"

\* C20: a read / read_simulcast gets past the first-receive gate only after a
\* receive call has returned Ok.
C20_GateOpensOnSuccess ==
  \A r \in Readers : PastGate(r) => ReceiveSucceeded

\* ------------------------------------------------- after stop has returned

\* A stop invoked after receive had been invoked has returned.
StopReturned == stop_after_receive # "no" /\ spc \in {"done", "idle"}

\* C21: once a stop that was invoked after receive had returned has itself
\* returned, every repair-drain task spawned by receive_for_rtx eventually
\* terminates (a read on a closed pipeline fails).
C21_DrainsTerminate ==
  (stop_after_receive = "returned" /\ spc \in {"done", "idle"})
    ~> (drains = {})

\* C22: once a stop invoked after receive had been invoked and that receive
\* have both returned, every pipeline receive got from a stream binding
\* (primary or repair) has had close called on both its read streams, and
\* the descriptor of every binding has been unbound.
C22_NoPipelineLeaked ==
  (StopReturned /\ ReceiveReturned) =>
    \A b \in binds :
      /\ b.outcome # "err" => b.id \in unbound
      /\ b.outcome = "full" =>
           (<<b.id, "rtp">> \in closed /\ <<b.id, "rtcp">> \in closed)

\* C23: a stop call that has been invoked eventually returns, whether or not
\* data ever arrives on a pipeline.
C23_StopTerminates ==
  (spc \in {"gate", "wlock", "closing"}) ~> (spc = "done")

====
